---- MODULE Spec2Model ----
(***************************************************************************)
(* solo.c: a command wrapper that runs COMMAND only if no other wrapper    *)
(* holds the advisory lock on the lock file.  Every wrapper invocation is  *)
(* a process p in Procs running main(); after fork() its child runs the    *)
(* pid == 0 branch of main().  The file system (one directory entry per    *)
(* path, inodes, POSIX record locks owned by processes) is shared.         *)
(***************************************************************************)
EXTENDS Integers, FiniteSets, Sequences, TLC

\* ---------------------------------------------------------------- bounds
NProcs == 3
\* handled signals delivered plus system calls made to fail, over a whole run
MaxEvents == 1

\* ------------------------------------------------------ program constants
ENOSPC == 28
ECHILD == 10
EAGAIN == 11
ENOMEM == 12
EACCES == 13
EINVAL == 22
ENOENT == 2
ENOLCK == 37
EFAULT == 14
ENAMETOOLONG == 36
SIGSEGV == 11
ExitWidth == 256
\* <linux/limits.h>: bytes in a path with its terminating NUL, in a file name
PATH_MAX == 4096
NAME_MAX == 255

Procs == 1..NProcs
NULL == "NULL"
NoFd == -1
NoInode == 0
NoProc == 0
\* exit statuses of the wrapped command
CmdStatuses == {0, 1}
\* lockf(F_TLOCK) on a lock held by another process: EAGAIN on Linux (POSIX
\* also allows EACCES, which main() treats alike)
ContentionErrnos == {EAGAIN}

\* ------------------------------------------ command line, lock identity
\* s repeated n times
RECURSIVE Rep(_, _)
Rep(s, n) ==
    IF n = 0 THEN ""
    ELSE IF n % 2 = 1 THEN s \o Rep(s, n - 1)
    ELSE LET h == Rep(s, n \div 2) IN h \o h

LockPath == "/tmp/solo-lock-cmd"
\* a command name that alone fills PATH_MAX
LongName == Rep("x", PATH_MAX)
SoloArgv == <<"solo", "-l", LockPath, "cmd">>
\* the command lines given to solo
Argvs ==
    {<<"solo">>,
     <<"solo", "-l">>,
     <<"solo", "--lockfile">>,
     <<"solo", "-l", LockPath>>,
     SoloArgv,
     <<"solo", "--lockfile", "/run/other.lock", "/usr/bin/other">>,
     <<"solo", "cmd">>,
     <<"solo", "/usr/bin/cmd">>,
     <<"solo", "bin/">>,
     <<"solo", LongName>>,
     <<"solo", "cmd", "-l", LockPath>>}

\* argv[i] of the C program: argv[argc] is NULL
Arg(a, i) == IF i < Len(a) THEN a[i + 1] ELSE NULL

\* strcmp(argv[1], "-l") == 0 || strcmp(argv[1], "--lockfile") == 0
IsLockfileFlag(s) == s = "-l" \/ s = "--lockfile"

\* main's cmd_start: index in argv of the command
CmdStart(a) == IF IsLockfileFlag(Arg(a, 1)) THEN 3 ELSE 1

\* basename() of <string.h> under _GNU_SOURCE: what follows the last '/'
Basename(s) ==
    LET slashes == {i \in 1..Len(s) : SubSeq(s, i, i) = "/"}
        last == IF slashes = {} THEN 0
                ELSE CHOOSE i \in slashes : \A j \in slashes : j <= i
    IN SubSeq(s, last + 1, Len(s))

\* snprintf(buf, size, ...) of a formatted string s: returns the length of s,
\* stores at most size - 1 characters of it
Snprintf(size, s) ==
    [ret |-> Len(s), buf |-> IF Len(s) < size THEN s ELSE SubSeq(s, 1, size - 1)]

\* get_lockdir's candidates, in order
LockdirPaths == <<"/var/lock", "/tmp">>
\* what stat() finds at a candidate: the call fails (nothing there, or no
\* access), a directory, something that is not a directory
StatOutcomes == {"fail", "dir", "notdir"}
StatCombos == [1..Len(LockdirPaths) -> StatOutcomes]

\* variant: a candidate whose stat fails is skipped
RECURSIVE GetLockdirSkipsFailed(_, _)
GetLockdirSkipsFailed(st, i) ==
    IF i > Len(LockdirPaths) THEN [ret |-> ".", probed |-> i - 1]
    ELSE IF st[i] = "dir" THEN [ret |-> LockdirPaths[i], probed |-> i]
    ELSE GetLockdirSkipsFailed(st, i + 1)

\* variant: the loop gives up after the last candidate
RECURSIVE GetLockdirNoFallback(_, _)
GetLockdirNoFallback(st, i) ==
    IF i > Len(LockdirPaths) THEN [ret |-> NULL, probed |-> i - 1]
    ELSE IF st[i] = "fail" THEN [ret |-> NULL, probed |-> i]
    ELSE IF st[i] = "dir" THEN [ret |-> LockdirPaths[i], probed |-> i]
    ELSE GetLockdirNoFallback(st, i + 1)

\* get_lockdir(), from candidate i on, the candidates being as st says:
\* the value returned and the number of candidates stat() was called on
RECURSIVE GetLockdirFrom(_, _)
GetLockdirFrom(st, i) ==
    IF i > Len(LockdirPaths) THEN [ret |-> ".", probed |-> i - 1]
    ELSE IF st[i] = "fail" THEN [ret |-> NULL, probed |-> i]
    ELSE IF st[i] = "dir" THEN [ret |-> LockdirPaths[i], probed |-> i]
    ELSE GetLockdirFrom(st, i + 1)

GetLockdir(st) == GetLockdirFrom(st, 1)

\* `lockfile = filepath` keeps the address of an array whose block ends at
\* once: what is read through `lockfile` afterwards is the formatted path if
\* the build left the storage alone, other bytes if it reused it
Storage == {"intact", "reused"}
Clobbered == "<reused storage>"

\* main() up to the assignment of `lockfile`: `exits` when main returns 1
ResolveIdentity(a, st, storage) ==
    LET argc == Len(a)
        stop == [exits |-> TRUE, lockfile |-> NULL, lockdir |-> NULL, stats |-> <<>>]
        g == GetLockdir(st)
        seen == [i \in 1..g.probed |-> st[i]]
        program_name == Basename(Arg(a, CmdStart(a)))
        filepath == Snprintf(PATH_MAX, g.ret \o "/solo-lock-" \o program_name).buf
    IN IF argc < 2 THEN stop
       ELSE IF IsLockfileFlag(Arg(a, 1))
       THEN IF argc < 3 THEN stop
            ELSE [stop EXCEPT !.exits = FALSE, !.lockfile = Arg(a, 2)]
       ELSE IF g.ret = NULL THEN [stop EXCEPT !.stats = seen]
       ELSE IF program_name = "" THEN [stop EXCEPT !.stats = seen, !.lockdir = g.ret]
       ELSE [exits |-> FALSE,
             lockfile |-> IF storage = "intact" THEN filepath ELSE Clobbered,
             lockdir |-> g.ret, stats |-> seen]

\* the command main() hands to execvp(): argv[cmd_start]
Command(a) == Arg(a, CmdStart(a))

\* a file name longer than NAME_MAX is refused by the file system
NameTooLong(path) == Len(Basename(path)) > NAME_MAX

\* every value `lockfile` can take, and those at which a file can exist
LockfileValues ==
    {ResolveIdentity(a, st, storage).lockfile :
        a \in Argvs, st \in StatCombos, storage \in Storage} \ {NULL}
Paths == {path \in LockfileValues : ~NameTooLong(path)}

\* the outcomes of a failing execvp(): no such file; for a NULL file name
\* (undefined) an EFAULT return or a crash of the child
ExecFailures(cmd) == IF cmd = NULL THEN {"EFAULT", "SIGSEGV"} ELSE {"ENOENT"}

VARIABLES
    argv,        \* wrapper: the command line, argv[0] first
    pc,          \* wrapper: position in main()/graceful_exit()
    lockfile,    \* wrapper: global `lockfile` (a path or NULL)
    lockfile_fd, \* wrapper: global `lockfile_fd`: -1, or the inode the descriptor is open on
    fdOpen,      \* wrapper: the descriptor in lockfile_fd is still open
    status,      \* wrapper: argument of graceful_exit(), exit status once exited
    errno,       \* wrapper: errno
    cpc,         \* child: position in the pid == 0 branch / graceful_exit()
    cfdOpen,     \* child: its inherited copy of the descriptor is still open
    cstatus,     \* child: argument of graceful_exit(), exit status once exited
    cerrno,      \* child: errno
    file,        \* file system: path -> inode linked there (NoInode: no file)
    lock,        \* file system: inode -> process holding the record lock
    sigs,        \* handled signals delivered so far
    faults,      \* environment faults (failing system calls) injected so far
    log          \* history of each wrapper, read by the properties only

vars == <<argv, pc, lockfile, lockfile_fd, fdOpen, status, errno, cpc, cfdOpen,
          cstatus, cerrno, file, lock, sigs, faults, log>>

prog == <<pc, lockfile, lockfile_fd, fdOpen, status, errno>>
child == <<cpc, cfdOpen, cstatus, cerrno>>

\* the environment may still deliver a signal or make a system call fail
MayDisturb == sigs + faults < MaxEvents

\* process id of the child forked by wrapper p
ChildOf(p) == NProcs + p

NoLog == [rel |-> 0, unlinks |-> 0, closes |-> 0, sigd |-> FALSE,
          acquired |-> FALSE, contended |-> FALSE, failErr |-> 0,
          waitOk |-> FALSE, cunlinks |-> 0, csigd |-> FALSE, execErr |-> 0,
          steps |-> 0, stats |-> <<>>, lockdir |-> NULL]

\* no invocation has started, no lock file exists
Started ==
    /\ pc = [p \in Procs |-> "start"]
    /\ lockfile = [p \in Procs |-> NULL]
    /\ lockfile_fd = [p \in Procs |-> NoFd]
    /\ fdOpen = [p \in Procs |-> FALSE]
    /\ status = [p \in Procs |-> 0]
    /\ errno = [p \in Procs |-> 0]
    /\ cpc = [p \in Procs |-> "none"]
    /\ cfdOpen = [p \in Procs |-> FALSE]
    /\ cstatus = [p \in Procs |-> 0]
    /\ cerrno = [p \in Procs |-> 0]
    /\ file = [f \in Paths |-> NoInode]
    /\ lock = [i \in Procs |-> NoProc]
    /\ sigs = 0
    /\ faults = 0
    /\ log = [p \in Procs |-> NoLog]

\* every invocation is `solo -l /tmp/solo-lock-cmd cmd`
Init == argv = [p \in Procs |-> SoloArgv] /\ Started

\* the first invocation has any of the command lines of Argvs, the second is
\* `solo -l /tmp/solo-lock-cmd cmd`, the others are given no argument
ArgInit ==
    /\ argv \in {a \in [Procs -> Argvs] :
                    \A p \in Procs \ {1} : a[p] = IF p = 2 THEN SoloArgv ELSE <<"solo">>}
    /\ Started

\* ----------------------------------------------------- system call models
\* unlink(path): the directory entry goes, whoever created the file
SysUnlink(f, path) == IF path \in DOMAIN f THEN [f EXCEPT ![path] = NoInode] ELSE f

\* close(fd) by process `proc` of a descriptor open on `inode`: POSIX record
\* locks of that process on the file are dropped
SysClose(lk, proc, inode) ==
    IF inode \in DOMAIN lk /\ lk[inode] = proc THEN [lk EXCEPT ![inode] = NoProc] ELSE lk

\* lockf(fd, F_TLOCK, 0) succeeds unless another process holds the lock
LockFree(lk, proc, inode) == lk[inode] \in {NoProc, proc}

\* exit(status): the parent sees the low 8 bits
ExitCode(s) == s % ExitWidth

\* status of a process ended by a signal, as a shell reports it
KilledBy(sig) == ExitWidth \div 2 + sig

\* ------------------------------------------------------------ graceful_exit
\* variant: close first, then unlink
GeOrderCloseFirst == <<"ge_close", "ge_unlink", "ge_exit">>
\* the order of graceful_exit()'s statements: unlink, then close, then exit
GeOrder == <<"ge_unlink", "ge_close", "ge_exit">>
GeFirst == GeOrder[1]
GeAfter(s) == IF s = GeOrder[1] THEN GeOrder[2] ELSE GeOrder[3]

Bump(p, field) == [log EXCEPT ![p][field] = @ + 1]
Note(p, field, v) == [log EXCEPT ![p][field] = v]
\* one more step of wrapper p since its lockf met contention
Tick(l, p) == IF l[p].contended THEN [l EXCEPT ![p].steps = @ + 1] ELSE l

\* ---------------------------------------------------------------- wrapper
\* main() up to line 157: usage errors and failed resolutions return 1, else
\* the lock identity is stored in the global `lockfile`
\* (the invocations are numbered in the order in which they start)
Resolve(p) ==
    /\ pc[p] = "start"
    /\ IF p = 1 THEN TRUE ELSE pc[p - 1] # "start"
    /\ \E st \in StatCombos, storage \in Storage :
          LET r == ResolveIdentity(argv[p], st, storage)
          IN /\ lockfile' = [lockfile EXCEPT ![p] = r.lockfile]
             /\ status' = [status EXCEPT ![p] = IF r.exits THEN 1 ELSE @]
             /\ pc' = [pc EXCEPT ![p] = IF r.exits THEN "exited" ELSE "install"]
             /\ log' = [log EXCEPT ![p].lockdir = r.lockdir, ![p].stats = r.stats]
    /\ UNCHANGED <<argv, lockfile_fd, fdOpen, errno, child, file, lock, sigs, faults>>

\* install_signal_handlers(); on a sigaction failure main returns errno
InstallSignalHandlers(p) ==
    /\ pc[p] = "install"
    /\ \/ /\ pc' = [pc EXCEPT ![p] = "creat"]
          /\ UNCHANGED <<status, errno, faults>>
       \/ /\ MayDisturb
          /\ faults' = faults + 1
          /\ errno' = [errno EXCEPT ![p] = EINVAL]
          /\ status' = [status EXCEPT ![p] = ExitCode(EINVAL)]
          /\ pc' = [pc EXCEPT ![p] = "exited"]
    /\ UNCHANGED <<argv, lockfile, lockfile_fd, fdOpen, child, file, lock, sigs, log>>

\* lockfile_fd = creat(lockfile, S_IWUSR): opens the file linked at the path,
\* creating a new inode (named after its creator) when there is none
CreatOk(p) ==
    /\ pc[p] = "creat"
    /\ ~NameTooLong(lockfile[p])
    /\ LET path == lockfile[p]
           ino == IF file[path] = NoInode THEN p ELSE file[path]
       IN /\ file' = [file EXCEPT ![path] = ino]
          /\ lockfile_fd' = [lockfile_fd EXCEPT ![p] = ino]
    /\ fdOpen' = [fdOpen EXCEPT ![p] = TRUE]
    /\ pc' = [pc EXCEPT ![p] = "lockf"]
    /\ UNCHANGED <<argv, lockfile, status, errno, child, lock, sigs, faults, log>>

\* creat() fails: lockfile_fd == -1, errno set, the failure branch is taken
CreatFail(p) ==
    /\ pc[p] = "creat"
    /\ NameTooLong(lockfile[p]) \/ MayDisturb
    /\ LET e == IF NameTooLong(lockfile[p]) THEN ENAMETOOLONG ELSE EACCES
       IN /\ errno' = [errno EXCEPT ![p] = e]
          /\ log' = Note(p, "failErr", e)
    /\ faults' = IF NameTooLong(lockfile[p]) THEN faults ELSE faults + 1
    /\ lockfile_fd' = [lockfile_fd EXCEPT ![p] = NoFd]
    /\ pc' = [pc EXCEPT ![p] = "report"]
    /\ UNCHANGED <<argv, lockfile, fdOpen, status, child, file, lock, sigs>>

\* lockf(lockfile_fd, F_TLOCK, 0) takes the lock
LockfOk(p) ==
    /\ pc[p] = "lockf"
    /\ LockFree(lock, p, lockfile_fd[p])
    /\ lock' = [lock EXCEPT ![lockfile_fd[p]] = p]
    /\ log' = Note(p, "acquired", TRUE)
    /\ pc' = [pc EXCEPT ![p] = "fork"]
    /\ UNCHANGED <<argv, lockfile, lockfile_fd, fdOpen, status, errno, child, file, sigs, faults>>

\* variant: lockf(F_LOCK), which waits for the holder instead of failing
LockfBlocks(p) ==
    /\ pc[p] = "lockf"
    /\ ~LockFree(lock, p, lockfile_fd[p])
    /\ log' = Note(p, "contended", TRUE)
    /\ UNCHANGED <<argv, prog, child, file, lock, sigs, faults>>

\* lockf() finds the lock held by another process: EACCES or EAGAIN, at once
LockfContended(p) ==
    /\ pc[p] = "lockf"
    /\ ~LockFree(lock, p, lockfile_fd[p])
    /\ \E e \in ContentionErrnos :
          /\ errno' = [errno EXCEPT ![p] = e]
          /\ log' = [log EXCEPT ![p].contended = TRUE, ![p].failErr = e]
    /\ pc' = [pc EXCEPT ![p] = "report"]
    /\ UNCHANGED <<argv, lockfile, lockfile_fd, fdOpen, status, child, file, lock, sigs, faults>>

\* lockf() fails for another reason (no lock records left)
LockfFail(p) ==
    /\ pc[p] = "lockf"
    /\ LockFree(lock, p, lockfile_fd[p])
    /\ MayDisturb
    /\ faults' = faults + 1
    /\ errno' = [errno EXCEPT ![p] = ENOLCK]
    /\ log' = Note(p, "failErr", ENOLCK)
    /\ pc' = [pc EXCEPT ![p] = "report"]
    /\ UNCHANGED <<argv, lockfile, lockfile_fd, fdOpen, status, child, file, lock, sigs>>

\* perror()/fprintf(stderr, ...) after a failed call, then graceful_exit(errno):
\* a diagnostic that cannot be written (stderr on a full device) sets errno itself
Report(p) ==
    /\ pc[p] = "report"
    /\ \/ /\ UNCHANGED <<errno, faults>>
       \/ /\ MayDisturb
          /\ faults' = faults + 1
          /\ errno' = [errno EXCEPT ![p] = ENOSPC]
    /\ status' = [status EXCEPT ![p] = errno'[p]]
    /\ log' = Tick(Bump(p, "rel"), p)
    /\ pc' = [pc EXCEPT ![p] = GeFirst]
    /\ UNCHANGED <<argv, lockfile, lockfile_fd, fdOpen, child, file, lock, sigs>>

\* pid = fork(), pid > 0: the child starts in the pid == 0 branch with a copy
\* of the descriptor and of the installed handlers; it inherits no lock
ForkOk(p) ==
    /\ pc[p] = "fork"
    /\ pc' = [pc EXCEPT ![p] = "wait"]
    /\ cpc' = [cpc EXCEPT ![p] = "close"]
    /\ cfdOpen' = [cfdOpen EXCEPT ![p] = TRUE]
    /\ UNCHANGED <<argv, lockfile, lockfile_fd, fdOpen, status, errno, cstatus, cerrno,
                   file, lock, sigs, faults, log>>

\* fork() fails: perror("fork"); graceful_exit(errno)
ForkFail(p) ==
    /\ pc[p] = "fork"
    /\ MayDisturb
    /\ faults' = faults + 1
    /\ errno' = [errno EXCEPT ![p] = ENOMEM]
    /\ log' = Note(p, "failErr", ENOMEM)
    /\ pc' = [pc EXCEPT ![p] = "report"]
    /\ UNCHANGED <<argv, lockfile, lockfile_fd, fdOpen, status, child, file, lock, sigs>>

\* variant: the child's status is passed on as the wrapper's exit status
WaitOkChildStatus(p) ==
    /\ pc[p] = "wait"
    /\ cpc[p] = "exited"
    /\ status' = [status EXCEPT ![p] = cstatus[p]]
    /\ log' = [log EXCEPT ![p].waitOk = TRUE, ![p].rel = @ + 1]
    /\ pc' = [pc EXCEPT ![p] = GeFirst]
    /\ UNCHANGED <<argv, lockfile, lockfile_fd, fdOpen, errno, child, file, lock, sigs, faults>>

\* waitpid(pid, NULL, 0) returns once the child has terminated; then
\* graceful_exit(0), whatever the child's status was
WaitOk(p) ==
    /\ pc[p] = "wait"
    /\ cpc[p] = "exited"
    /\ status' = [status EXCEPT ![p] = 0]
    /\ log' = [log EXCEPT ![p].waitOk = TRUE, ![p].rel = @ + 1]
    /\ pc' = [pc EXCEPT ![p] = GeFirst]
    /\ UNCHANGED <<argv, lockfile, lockfile_fd, fdOpen, errno, child, file, lock, sigs, faults>>

\* waitpid() itself fails (ECHILD, e.g. SIGCHLD ignored), after the child ended
WaitFail(p) ==
    /\ pc[p] = "wait"
    /\ cpc[p] = "exited"
    /\ MayDisturb
    /\ faults' = faults + 1
    /\ errno' = [errno EXCEPT ![p] = ECHILD]
    /\ log' = Note(p, "failErr", ECHILD)
    /\ pc' = [pc EXCEPT ![p] = "report"]
    /\ UNCHANGED <<argv, lockfile, lockfile_fd, fdOpen, status, child, file, lock, sigs>>

\* variant: the test is inverted, the unlink is never made
GeUnlinkSkipped(p) ==
    /\ pc[p] = "ge_unlink"
    /\ pc' = [pc EXCEPT ![p] = GeAfter("ge_unlink")]
    /\ UNCHANGED <<argv, lockfile, lockfile_fd, fdOpen, status, errno, child, file, lock,
                   sigs, faults, log>>

\* graceful_exit: if (lockfile != NULL) unlink(lockfile);
GeUnlink(p) ==
    /\ pc[p] = "ge_unlink"
    /\ IF lockfile[p] # NULL
       THEN /\ file' = SysUnlink(file, lockfile[p])
            /\ log' = Tick(Bump(p, "unlinks"), p)
       ELSE /\ log' = Tick(log, p)
            /\ UNCHANGED file
    /\ pc' = [pc EXCEPT ![p] = GeAfter("ge_unlink")]
    /\ UNCHANGED <<argv, lockfile, lockfile_fd, fdOpen, status, errno, child, lock, sigs, faults>>

\* graceful_exit: if (lockfile_fd != -1) close(lockfile_fd);
GeClose(p) ==
    /\ pc[p] = "ge_close"
    /\ IF lockfile_fd[p] # NoFd
       THEN /\ lock' = IF fdOpen[p] THEN SysClose(lock, p, lockfile_fd[p]) ELSE lock
            /\ fdOpen' = [fdOpen EXCEPT ![p] = FALSE]
            /\ log' = Tick(Bump(p, "closes"), p)
       ELSE /\ log' = Tick(log, p)
            /\ UNCHANGED <<lock, fdOpen>>
    /\ pc' = [pc EXCEPT ![p] = GeAfter("ge_close")]
    /\ UNCHANGED <<argv, lockfile, lockfile_fd, status, errno, child, file, sigs, faults>>

\* graceful_exit: exit(status); the kernel drops what the process still holds
GeExit(p) ==
    /\ pc[p] = "ge_exit"
    /\ status' = [status EXCEPT ![p] = ExitCode(status[p])]
    /\ pc' = [pc EXCEPT ![p] = "exited"]
    /\ lock' = IF fdOpen[p] THEN SysClose(lock, p, lockfile_fd[p]) ELSE lock
    /\ fdOpen' = [fdOpen EXCEPT ![p] = FALSE]
    /\ log' = Tick(log, p)
    /\ UNCHANGED <<argv, lockfile, lockfile_fd, errno, child, file, sigs, faults>>

\* SIGHUP, SIGINT or SIGTERM delivered once the handlers are installed:
\* signal_handler() calls graceful_exit(1) and never returns to the main flow
HandlersInstalled(at) ==
    at \in {"creat", "lockf", "fork", "wait", "report", "ge_unlink", "ge_close", "ge_exit"}

\* variant: the handler exits at once, without graceful_exit()'s cleanup
SignalExitOnly(p) ==
    /\ HandlersInstalled(pc[p])
    /\ MayDisturb
    /\ sigs' = sigs + 1
    /\ status' = [status EXCEPT ![p] = 1]
    /\ log' = Note(p, "sigd", TRUE)
    /\ pc' = [pc EXCEPT ![p] = "ge_exit"]
    /\ UNCHANGED <<argv, lockfile, lockfile_fd, fdOpen, errno, child, file, lock, faults>>

Signal(p) ==
    /\ HandlersInstalled(pc[p])
    /\ MayDisturb
    /\ sigs' = sigs + 1
    /\ status' = [status EXCEPT ![p] = 1]
    /\ log' = [log EXCEPT ![p].sigd = TRUE, ![p].rel = @ + 1]
    /\ pc' = [pc EXCEPT ![p] = GeFirst]
    /\ UNCHANGED <<argv, lockfile, lockfile_fd, fdOpen, errno, child, file, lock, faults>>

\* ------------------------------------------------------------------ child
\* variant: the lock belongs to the open file, any close of it drops the lock
ChildCloseDropsLock(p) ==
    /\ cpc[p] = "close"
    /\ lock' = SysClose(lock, p, lockfile_fd[p])
    /\ cfdOpen' = [cfdOpen EXCEPT ![p] = FALSE]
    /\ cpc' = [cpc EXCEPT ![p] = "exec"]
    /\ UNCHANGED <<argv, prog, cstatus, cerrno, file, sigs, faults, log>>

\* pid == 0: close(lockfile_fd); the child holds no lock of its own
ChildClose(p) ==
    /\ cpc[p] = "close"
    /\ lock' = SysClose(lock, ChildOf(p), lockfile_fd[p])
    /\ cfdOpen' = [cfdOpen EXCEPT ![p] = FALSE]
    /\ cpc' = [cpc EXCEPT ![p] = "exec"]
    /\ UNCHANGED <<argv, prog, cstatus, cerrno, file, sigs, faults, log>>

\* execvp() replaces the image: the wrapped command runs, handlers are reset
ChildExecOk(p) ==
    /\ cpc[p] = "exec"
    /\ Command(argv[p]) # NULL
    /\ cpc' = [cpc EXCEPT ![p] = "running"]
    /\ UNCHANGED <<argv, prog, cfdOpen, cstatus, cerrno, file, lock, sigs, faults, log>>

\* execvp() returns -1 (no such command), or the child dies in it
ChildExecFail(p) ==
    /\ cpc[p] = "exec"
    /\ \E o \in ExecFailures(Command(argv[p])) :
          IF o = "SIGSEGV"
          THEN /\ cstatus' = [cstatus EXCEPT ![p] = KilledBy(SIGSEGV)]
               /\ cpc' = [cpc EXCEPT ![p] = "exited"]
               /\ UNCHANGED <<cerrno, log>>
          ELSE /\ LET e == IF o = "EFAULT" THEN EFAULT ELSE ENOENT
                  IN /\ cerrno' = [cerrno EXCEPT ![p] = e]
                     /\ log' = Note(p, "execErr", e)
               /\ cpc' = [cpc EXCEPT ![p] = "report"]
               /\ UNCHANGED cstatus
    /\ UNCHANGED <<argv, prog, cfdOpen, file, lock, sigs, faults>>

\* perror("failed to exec program"); return errno;  (no cleanup in the child)
ChildReturn(p) ==
    /\ cpc[p] = "report"
    /\ \/ /\ UNCHANGED <<cerrno, faults>>
       \/ /\ MayDisturb
          /\ faults' = faults + 1
          /\ cerrno' = [cerrno EXCEPT ![p] = ENOSPC]
    /\ cstatus' = [cstatus EXCEPT ![p] = ExitCode(cerrno'[p])]
    /\ cpc' = [cpc EXCEPT ![p] = "exited"]
    /\ UNCHANGED <<argv, prog, cfdOpen, file, lock, sigs, log>>

\* the wrapped command terminates, with any status or by a signal
CmdExit(p) ==
    /\ cpc[p] = "running"
    /\ \E s \in CmdStatuses : cstatus' = [cstatus EXCEPT ![p] = s]
    /\ cpc' = [cpc EXCEPT ![p] = "exited"]
    /\ UNCHANGED <<argv, prog, cfdOpen, cerrno, file, lock, sigs, faults, log>>

\* a handled signal delivered to the child before execvp() replaced the
\* image: the inherited signal_handler() runs graceful_exit(1) in the child
ChildSignal(p) ==
    /\ cpc[p] \in {"close", "exec", "report", "ge_unlink", "ge_close", "ge_exit"}
    /\ MayDisturb
    /\ sigs' = sigs + 1
    /\ cstatus' = [cstatus EXCEPT ![p] = 1]
    /\ log' = Note(p, "csigd", TRUE)
    /\ cpc' = [cpc EXCEPT ![p] = GeFirst]
    /\ UNCHANGED <<argv, prog, cfdOpen, cerrno, file, lock, faults>>

ChildGeUnlink(p) ==
    /\ cpc[p] = "ge_unlink"
    /\ IF lockfile[p] # NULL
       THEN /\ file' = SysUnlink(file, lockfile[p])
            /\ log' = Bump(p, "cunlinks")
       ELSE UNCHANGED <<file, log>>
    /\ cpc' = [cpc EXCEPT ![p] = GeAfter("ge_unlink")]
    /\ UNCHANGED <<argv, prog, cfdOpen, cstatus, cerrno, lock, sigs, faults>>

ChildGeClose(p) ==
    /\ cpc[p] = "ge_close"
    /\ IF lockfile_fd[p] # NoFd
       THEN /\ lock' = IF cfdOpen[p] THEN SysClose(lock, ChildOf(p), lockfile_fd[p]) ELSE lock
            /\ cfdOpen' = [cfdOpen EXCEPT ![p] = FALSE]
       ELSE UNCHANGED <<lock, cfdOpen>>
    /\ cpc' = [cpc EXCEPT ![p] = GeAfter("ge_close")]
    /\ UNCHANGED <<argv, prog, cstatus, cerrno, file, sigs, faults, log>>

ChildGeExit(p) ==
    /\ cpc[p] = "ge_exit"
    /\ cstatus' = [cstatus EXCEPT ![p] = ExitCode(cstatus[p])]
    /\ cfdOpen' = [cfdOpen EXCEPT ![p] = FALSE]
    /\ cpc' = [cpc EXCEPT ![p] = "exited"]
    /\ UNCHANGED <<argv, prog, cerrno, file, lock, sigs, faults, log>>

\* ---------------------------------------------------------- specification
WrapperStep(p) ==
    \/ Resolve(p) \/ InstallSignalHandlers(p)
    \/ CreatOk(p) \/ CreatFail(p)
    \/ LockfOk(p) \/ LockfContended(p) \/ LockfFail(p)
    \/ Report(p)
    \/ ForkOk(p) \/ ForkFail(p)
    \/ WaitOk(p) \/ WaitFail(p)
    \/ GeUnlink(p) \/ GeClose(p) \/ GeExit(p)

ChildStep(p) ==
    \/ ChildClose(p) \/ ChildExecOk(p) \/ ChildExecFail(p) \/ ChildReturn(p)
    \/ ChildGeUnlink(p) \/ ChildGeClose(p) \/ ChildGeExit(p)

Next ==
    \E p \in Procs :
        \/ WrapperStep(p)
        \/ ChildStep(p)
        \/ CmdExit(p)
        \/ Signal(p)
        \/ ChildSignal(p)

Spec == Init /\ [][Next]_vars

\* the same program, its first invocation given any command line
ArgSpec == ArgInit /\ [][Next]_vars

\* every live process keeps taking its own steps; nothing makes the wrapped
\* command end, and no signal has to arrive
FairSpec ==
    /\ Spec
    /\ \A p \in Procs : WF_vars(WrapperStep(p)) /\ WF_vars(ChildStep(p))

TypeOK ==
    /\ pc \in [Procs -> {"start", "install", "creat", "lockf", "fork", "wait", "report",
                         "ge_unlink", "ge_close", "ge_exit", "exited"}]
    /\ argv \in [Procs -> Argvs]
    /\ lockfile \in [Procs -> LockfileValues \cup {NULL}]
    /\ lockfile_fd \in [Procs -> Procs \cup {NoFd}]
    /\ cpc \in [Procs -> {"none", "close", "exec", "report", "running",
                          "ge_unlink", "ge_close", "ge_exit", "exited"}]
    /\ file \in [Paths -> Procs \cup {NoInode}]
    /\ lock \in [Procs -> Procs \cup {NoProc}]
    /\ sigs \in 0..MaxEvents
    /\ faults \in 0..MaxEvents

\* ------------------------------------------------------------- properties
Running(p) == cpc[p] = "running"
Exited(p) == pc[p] = "exited"
SameIdentity(p, q) == lockfile[p] # NULL /\ lockfile[p] = lockfile[q]
Undisturbed == sigs = 0 /\ faults = 0
AllTerminated == \A p \in Procs : Exited(p) /\ cpc[p] \in {"none", "exited"}
\* the descriptor of p was opened and is closed again
HandleClosed(p) == lockfile_fd[p] # NoFd /\ ~fdOpen[p]
\* the file p opened is no longer linked at p's lock path
OwnFileRemoved(p) == file[lockfile[p]] = NoInode \/ file[lockfile[p]] # lockfile_fd[p]

\* C1: with no signal delivered (and no system call failing), at most one
\* wrapped command runs at a time among invocations of the same identity.
MutualExclusion ==
    Undisturbed =>
        \A p, q \in Procs : (p # q /\ SameIdentity(p, q)) => ~(Running(p) /\ Running(q))

\* C2: while the command of one invocation is running, no other invocation
\* of the same identity succeeds in lockf (it fails with contention and never
\* reaches fork).
SingleAcquirer ==
    [][\A q \in Procs :
          (Undisturbed /\ pc[q] = "lockf" /\ pc'[q] = "fork")
              => ~(\E p \in Procs : p # q /\ SameIdentity(p, q) /\ Running(p))]_vars

\* steps from a failed lockf to exit: report, unlink, close, exit; a handled
\* signal restarts the three steps of graceful_exit
StepsOfRelease == Len(GeOrder)
StepsToExit == 1 + StepsOfRelease

\* C3: an invocation whose lockf met contention is from then on only at the
\* report and release steps, each of which it can take whatever the other
\* processes do (no step waits for the holder or its command); it has exited
\* after a bounded number of its own steps, and with a nonzero status.
ContendedExitsPromptly ==
    \A p \in Procs :
        log[p].contended =>
            /\ pc[p] \in {"report", "ge_unlink", "ge_close", "ge_exit", "exited"}
            /\ log[p].steps <= StepsToExit + StepsOfRelease * sigs
            /\ ~Exited(p) => ENABLED WrapperStep(p)
            /\ Exited(p) => status[p] # 0

\* the leads-to form of C3, for FairSpec
ContendedExits ==
    \A p \in Procs : log[p].contended ~> (Exited(p) /\ status[p] # 0)

ContendedExitsWitness ==
    \E p, q \in Procs :
        /\ log[p].contended /\ Exited(p) /\ status[p] # 0
        /\ Running(q) /\ pc[q] = "wait"

\* C4: once every wrapper and every command has terminated, no file is left
\* at the lock path.
NoLockFileLeft == AllTerminated => \A f \in Paths : file[f] = NoInode

NoLockFileLeftWitness ==
    /\ AllTerminated
    /\ \E p, q \in Procs : p # q /\ log[p].acquired /\ log[q].contended
    /\ \E p \in Procs : cpc[p] = "exited"

\* C5: a wrapper never closes the lock handle before it has attempted the
\* unlink of the lock path.
UnlinkBeforeClose ==
    \A p \in Procs : (log[p].closes > 0 \/ HandleClosed(p)) => log[p].unlinks > 0

UnlinkBeforeCloseWitness ==
    \E p \in Procs : log[p].closes > 0 /\ HandleClosed(p) /\ log[p].acquired

\* C6: a wrapper that took the lock and then received a handled signal exits
\* with status 1 and its lock file is removed.
SignalRelease ==
    \A p \in Procs :
        (Exited(p) /\ log[p].sigd /\ log[p].acquired)
            => (status[p] = 1 /\ log[p].unlinks > 0 /\ OwnFileRemoved(p))

SignalReleaseWitness ==
    \E p \in Procs : Exited(p) /\ log[p].sigd /\ log[p].acquired /\ Running(p)

\* C7: a wrapper that reaches release performs the unlink and the close
\* exactly once each before it exits.
ReleaseExactlyOnce ==
    \A p \in Procs :
        (Exited(p) /\ log[p].rel > 0)
            => /\ log[p].unlinks = 1
               /\ log[p].closes = (IF lockfile_fd[p] = NoFd THEN 0 ELSE 1)

\* C8: after a successful wait and with no signal handled, the wrapper has
\* released and exits 0, whatever the child's status was.
ExitZeroAfterWait ==
    \A p \in Procs :
        (Exited(p) /\ log[p].waitOk /\ ~log[p].sigd)
            => (status[p] = 0 /\ log[p].unlinks > 0 /\ HandleClosed(p))

ExitZeroAfterWaitWitness ==
    \E p \in Procs : Exited(p) /\ log[p].waitOk /\ ~log[p].sigd /\ cstatus[p] # 0

\* C9: when execvp fails (and no signal is delivered) the child exits with the
\* error code of the failed exec without unlinking, and the parent, after its
\* wait, removes the lock file and exits 0.
ExecFailure ==
    \A p \in Procs :
        (log[p].execErr # 0 /\ sigs = 0)
            => /\ log[p].cunlinks = 0
               /\ cpc[p] = "exited" => cstatus[p] = log[p].execErr
               /\ (Exited(p) /\ log[p].waitOk) => (status[p] = 0 /\ OwnFileRemoved(p))

\* C10: when creat, lockf, fork or waitpid fails (and no signal is delivered)
\* the wrapper releases and exits with the errno of that call; nonzero on
\* contention.
ErrnoExitStatus ==
    \A p \in Procs :
        (Exited(p) /\ log[p].failErr # 0 /\ ~log[p].sigd)
            => /\ log[p].unlinks > 0
               /\ status[p] = log[p].failErr
               /\ log[p].contended => status[p] # 0

\* p was started, and main() is past line 157 or has returned
Resolved(p) == pc[p] # "start"
\* p is run without the lockfile flag: the identity is derived
Derived(p) == Len(argv[p]) >= 2 /\ ~IsLockfileFlag(Arg(argv[p], 1))
\* never created a file, took a lock or forked
NothingDone(p) == lockfile_fd[p] = NoFd /\ ~log[p].acquired /\ cpc[p] = "none"
\* <directory>/solo-lock-<basename> for a derived identity
DerivedString(p) == log[p].lockdir \o "/solo-lock-" \o Basename(Arg(argv[p], 1))
TooLong(p) ==
    Derived(p) /\ log[p].lockdir # NULL /\ Len(DerivedString(p)) >= PATH_MAX
IntendedIdentity(p) ==
    IF IsLockfileFlag(Arg(argv[p], 1)) THEN Arg(argv[p], 2) ELSE DerivedString(p)

\* C11: an invocation whose command line has no COMMAND exits with status 1
\* and has not created a lock file, taken a lock or forked.
UsageErrors ==
    \A p \in Procs :
        (Resolved(p) /\ Command(argv[p]) = NULL)
            => (Exited(p) /\ status[p] = 1 /\ NothingDone(p))

\* C12: when the derived string does not fit in PATH_MAX the wrapper never
\* creates a lock file, takes a lock or spawns the command, and if it has
\* terminated its status is an error.
PathTooLongFails ==
    \A p \in Procs :
        TooLong(p) => (NothingDone(p) /\ (Exited(p) => status[p] # 0))

\* C13: the identity used for creat, lock and unlink is the explicit LOCKFILE,
\* or else <directory>/solo-lock-<basename> (taken here only where that string
\* fits in PATH_MAX); two invocations whose handles are open on the same file
\* have equal identities.
IdentityResolution ==
    /\ \A p \in Procs :
          (Resolved(p) /\ lockfile[p] # NULL /\ ~TooLong(p))
              => lockfile[p] = IntendedIdentity(p)
    /\ \A p, q \in Procs :
          (fdOpen[p] /\ fdOpen[q] /\ lockfile_fd[p] = lockfile_fd[q] /\ ~TooLong(p) /\ ~TooLong(q))
              => IntendedIdentity(p) = IntendedIdentity(q)

\* C14: a second run of release in the same wrapper (its unlink was already
\* called once) never removes a lock file that another process has created
\* and locked in the meantime.
RereleaseHarmless ==
    [][\A p \in Procs :
          (log[p].unlinks >= 1 /\ log'[p].unlinks > log[p].unlinks)
              => ~(\E q \in Procs \ {p} :
                      /\ file[lockfile[p]] = q
                      /\ lock[q] = q
                      /\ file'[lockfile[p]] = NoInode)]_vars

\* C15: the child flow never unlinks the lock path, whatever signal it gets
\* between fork and exec.
ChildNeverUnlinks == \A p \in Procs : log[p].cunlinks = 0

\* C16: get_lockdir probes the candidates in order, going on only past a
\* candidate that exists and is no directory; its result is the first
\* candidate that is a directory; a failing stat ends the search at once and
\* the wrapper exits with status 1 without a lock file.
LockdirSearchPolicy ==
    \A p \in Procs :
        (Resolved(p) /\ Derived(p)) =>
            LET s == log[p].stats
                d == log[p].lockdir
            IN /\ Len(s) \in 1..Len(LockdirPaths)
               /\ \A i \in 1..(Len(s) - 1) : s[i] = "notdir"
               /\ \A i \in 1..Len(LockdirPaths) :
                     d = LockdirPaths[i] <=> (Len(s) = i /\ s[i] = "dir")
               /\ s[Len(s)] = "fail" =>
                     /\ d = NULL /\ lockfile[p] = NULL
                     /\ Exited(p) /\ status[p] = 1 /\ NothingDone(p)

LockdirSearchPolicyWitness ==
    \E p \in Procs :
        /\ Derived(p) /\ log[p].stats = <<"notdir", "fail">>
        /\ Exited(p) /\ status[p] = 1
        /\ \A f \in Paths : file[f] = NoInode

\* C17: get_lockdir never returns the current-directory fallback.
FallbackUnreachable == \A p \in Procs : log[p].lockdir # "."

\* C17, amended: get_lockdir returns the fallback "." exactly when every
\* candidate exists and none is a directory.
FallbackWhenNoDirectory ==
    \A p \in Procs :
        (Resolved(p) /\ Derived(p)) =>
            (log[p].lockdir = "." <=>
                /\ Len(log[p].stats) = Len(LockdirPaths)
                /\ \A i \in 1..Len(log[p].stats) : log[p].stats[i] = "notdir")

FallbackWhenNoDirectoryWitness ==
    \E p \in Procs :
        /\ log[p].lockdir = "." /\ log[p].stats = <<"notdir", "notdir">>
        /\ lockfile[p] = "./solo-lock-cmd" /\ log[p].acquired

\* the file p opened is the one linked at p's lock path
OwnFileLinked(p) == lockfile[p] \in DOMAIN file /\ file[lockfile[p]] = lockfile_fd[p]
\* p holds the record lock on the file it opened
HoldsLock(p) == lockfile_fd[p] # NoFd /\ fdOpen[p] /\ lock[lockfile_fd[p]] = p

\* C18: with no signal delivered, while a wrapper holds the lock and has not
\* begun its release, the file it created and locked is the file linked at its
\* lock path.
LockFileIntegrity ==
    sigs = 0 =>
        \A p \in Procs : (log[p].acquired /\ log[p].rel = 0) => OwnFileLinked(p)

\* C19: whenever a wrapped command is running its wrapper is alive, has not
\* unlinked the lock path, has not closed its handle and holds the lock.
CommandUnderLock ==
    \A p \in Procs :
        Running(p) => (~Exited(p) /\ log[p].unlinks = 0 /\ HoldsLock(p))

\* C20: from a wrapper's successful lockf until its own close it holds the
\* lock, whatever its child has closed; a lock attempt by another process on
\* the same inode cannot succeed and fails with contention.
ChildCloseKeepsLock ==
    \A p \in Procs :
        (log[p].acquired /\ fdOpen[p]) =>
            /\ HoldsLock(p)
            /\ \A q \in Procs \ {p} :
                  (pc[q] = "lockf" /\ lockfile_fd[q] = lockfile_fd[p])
                      => (~ENABLED LockfOk(q) /\ ENABLED LockfContended(q))

ChildCloseKeepsLockWitness ==
    \E p, q \in Procs :
        /\ p # q /\ log[p].acquired /\ fdOpen[p]
        /\ Running(p) /\ ~cfdOpen[p]
        /\ lockfile_fd[q] = lockfile_fd[p]
        /\ log[q].contended /\ pc[q] = "report"

====
